---- MODULE Spec2Model ----
(***************************************************************************)
(* Pendant designer: the 2D profile editor (points, selection, dragging),  *)
(* the closure of the profile into the lathe profile, and persistence.     *)
(*                                                                         *)
(* Numbers.  JavaScript numbers are modelled as exact fixed-point values:  *)
(* a model-space coordinate c is stored as the integer c * ModelDen (tenths*)
(* of a millimetre); display-space coordinates are whole pixels.  Pointer  *)
(* positions are drawn from pixel positions whose model-space image is a   *)
(* whole number of tenths, so toWorldCoords and toCanvasCoords are exact.  *)
(* Distances are compared through their squares (the square root is        *)
(* monotone), a point-to-segment distance being an exact fraction.         *)
(* Indices are 0-based as in the source; points[i] of the source is        *)
(* points[i + 1] here.                                                     *)
(***************************************************************************)
EXTENDS Integers, Sequences, FiniteSets, TLC

VARIABLES points, selectedPoint, isDragging, listeners,
          xCoordInput, yCoordInput, coordDisabled,
          pendantMesh, wireframeMesh, localStorage, download, lastOp, steps,
          defaultPoints, gesture

vars == << points, selectedPoint, isDragging, listeners,
           xCoordInput, yCoordInput, coordDisabled,
           pendantMesh, wireframeMesh, localStorage, download, lastOp,
           steps, defaultPoints, gesture >>

-----------------------------------------------------------------------------
(* Fixed-point denominators and program constants *)

\* model-space numbers are stored in units of 1/ModelDen
ModelDen == 10
\* coordinates of the lathe geometry are stored in units of 1/GeomDen
GeomDen == 100
\* text of a coordinate input holds 2 decimals: units of 1/TextDen
TextDen == 100

worldScale == 50
\* profileCanvas.width and profileCanvas.height
W == 400
H == 400
\* the literal 6 of "dist < 6"
HitRadius == 6
\* JavaScript null for selectedPoint
Null == -1

\* the longest profile the model lets an insertion build
MaxPoints == 5
\* the number of events (handler runs) the model follows after startup
MaxSteps == 4
\* the longest list of a persisted snapshot the page is opened on
MaxSnapshot == 2

Max(a, b) == IF a >= b THEN a ELSE b
Min(a, b) == IF a <= b THEN a ELSE b

\* new THREE.Vector2(x, y): a new object.  ref tells which object it is:
\* i for the object created as element i of DEFAULT_POINTS, 0 for any other
\* object.  Two elements with the same ref other than 0 are one object, and
\* an assignment to a field of one is seen through the other.
Vector2(x, y) == [x |-> x, y |-> y, ref |-> 0]

\* the values of the list literal: (0.5, 2), (1.5, 1), (1.5, -1), (0.5, -2)
DEFAULT_POINTS ==
  << Vector2(5, 20), Vector2(15, 10), Vector2(15, -10), Vector2(5, -20) >>

\* the array DEFAULT_POINTS as the declaration creates it: the objects 1..4
DefaultObjects ==
  [i \in 1..Len(DEFAULT_POINTS) |-> [DEFAULT_POINTS[i] EXCEPT !.ref = i]]

\* p.clone(): a new object with the same coordinates
clone(p) == Vector2(p.x, p.y)

\* [...DEFAULT_POINTS]: a new array of the same objects
cloneDefaultsShared(defs) == defs

\* [...DEFAULT_POINTS.map(p => p.clone())]
cloneDefaults(defs) == [i \in 1..Len(defs) |-> clone(defs[i])]

\* the objects of DEFAULT_POINTS after the fields of the points pts were
\* assigned: an element of pts that is one of them carries its new values
defaultsAfterWrite(defs, pts) ==
  [i \in 1..Len(defs) |->
     IF \E k \in 1..Len(pts) : pts[k].ref = i
     THEN pts[CHOOSE k \in 1..Len(pts) : pts[k].ref = i]
     ELSE defs[i]]

-----------------------------------------------------------------------------
(* Coordinate transform *)

toCanvasCoords(worldPoint) ==
  [x |-> (W \div 2) + (worldPoint.x * worldScale) \div ModelDen,
   y |-> (H \div 2) - (worldPoint.y * worldScale) \div ModelDen]

\* toWorldCoords with "canvasPoint.y - height / 2": no inversion of the axis
toWorldCoordsNoFlip(canvasPoint) ==
  Vector2(((canvasPoint.x - W \div 2) * ModelDen) \div worldScale,
          ((canvasPoint.y - H \div 2) * ModelDen) \div worldScale)

toWorldCoords(canvasPoint) ==
  Vector2(((canvasPoint.x - W \div 2) * ModelDen) \div worldScale,
          ((H \div 2 - canvasPoint.y) * ModelDen) \div worldScale)

-----------------------------------------------------------------------------
(* Hit test: the loop of the mousedown and dblclick handlers *)

\* square of Math.sqrt(Math.pow(dx, 2) + Math.pow(dy, 2)), in pixels
canvasDistSq(worldPoint, mousePos) ==
  LET canvasPoint == toCanvasCoords(worldPoint)
  IN (canvasPoint.x - mousePos.x) * (canvasPoint.x - mousePos.x)
     + (canvasPoint.y - mousePos.y) * (canvasPoint.y - mousePos.y)

\* dist < 6
isHit(worldPoint, mousePos) ==
  canvasDistSq(worldPoint, mousePos) < HitRadius * HitRadius

RECURSIVE hitLoopLast(_, _, _)
\* the loop without its break: the last point in range wins
hitLoopLast(pts, mousePos, i) ==
  IF i >= Len(pts) THEN Null
  ELSE LET later == hitLoopLast(pts, mousePos, i + 1)
       IN IF later # Null THEN later
          ELSE IF isHit(pts[i + 1], mousePos) THEN i
          ELSE Null

RECURSIVE hitLoop(_, _, _)
\* for (i = 0; i < points.length; i++) if (dist < 6) { ...; break; }
hitLoop(pts, mousePos, i) ==
  IF i >= Len(pts) THEN Null
  ELSE IF isHit(pts[i + 1], mousePos) THEN i
  ELSE hitLoop(pts, mousePos, i + 1)

-----------------------------------------------------------------------------
(* Nearest segment *)

\* a non-negative fraction n/d; d = 0 stands for Infinity
Frac(n, d) == [n |-> n, d |-> d]
Infinity == Frac(1, 0)

RECURSIVE lessFrac(_, _, _, _)
\* a/b < c/d for a, c >= 0 and b, d > 0, without forming a*d and c*b
lessFrac(a, b, c, d) ==
  LET q1 == a \div b
      q2 == c \div d
      r1 == a % b
      r2 == c % d
  IN IF q1 # q2 THEN q1 < q2
     ELSE IF r2 = 0 THEN FALSE
     ELSE IF r1 = 0 THEN TRUE
     ELSE lessFrac(d, r2, b, r1)

\* dist < closestDist
lessDist(dist, closestDist) ==
  IF dist.d = 0 THEN FALSE
  ELSE IF closestDist.d = 0 THEN TRUE
  ELSE lessFrac(dist.n, dist.d, closestDist.n, closestDist.d)

distanceToSquared(a, b) ==
  (a.x - b.x) * (a.x - b.x) + (a.y - b.y) * (a.y - b.y)

\* The square of distanceToSegment(p, v, w), as an exact fraction.
\* t = dot / l2 clamped to [0, 1]; for 0 < t < 1 the squared distance from p
\* to v + t (w - v) is |p - v|^2 - dot^2 / l2.
distanceToSegment(p, v, w) ==
  LET l2 == distanceToSquared(v, w)
      dot == (p.x - v.x) * (w.x - v.x) + (p.y - v.y) * (w.y - v.y)
  IN IF l2 = 0 THEN Frac(distanceToSquared(p, v), 1)
     ELSE IF dot <= 0 THEN Frac(distanceToSquared(p, v), 1)
     ELSE IF dot >= l2 THEN Frac(distanceToSquared(p, w), 1)
     ELSE Frac(distanceToSquared(p, v) * l2 - dot * dot, l2)

RECURSIVE insertionLoopLastTie(_, _, _, _, _)
\* the loop with "dist <= closestDist"
insertionLoopLastTie(pts, worldPos, i, closestDist, insertionIndex) ==
  IF i >= Len(pts) - 1 THEN insertionIndex
  ELSE LET dist == distanceToSegment(worldPos, pts[i + 1], pts[i + 2])
       IN IF ~lessDist(closestDist, dist)
          THEN insertionLoopLastTie(pts, worldPos, i + 1, dist, i + 1)
          ELSE insertionLoopLastTie(pts, worldPos, i + 1, closestDist,
                                    insertionIndex)

RECURSIVE insertionLoopAtSegmentStart(_, _, _, _, _)
\* the loop with "insertionIndex = i" in place of "insertionIndex = i + 1"
insertionLoopAtSegmentStart(pts, worldPos, i, closestDist, insertionIndex) ==
  IF i >= Len(pts) - 1 THEN insertionIndex
  ELSE LET dist == distanceToSegment(worldPos, pts[i + 1], pts[i + 2])
       IN IF lessDist(dist, closestDist)
          THEN insertionLoopAtSegmentStart(pts, worldPos, i + 1, dist, i)
          ELSE insertionLoopAtSegmentStart(pts, worldPos, i + 1, closestDist,
                                           insertionIndex)

RECURSIVE insertionLoop(_, _, _, _, _)
\* for (i = 0; i < points.length - 1; i++) if (dist < closestDist) {...}
insertionLoop(pts, worldPos, i, closestDist, insertionIndex) ==
  IF i >= Len(pts) - 1 THEN insertionIndex
  ELSE LET dist == distanceToSegment(worldPos, pts[i + 1], pts[i + 2])
       IN IF lessDist(dist, closestDist)
          THEN insertionLoop(pts, worldPos, i + 1, dist, i + 1)
          ELSE insertionLoop(pts, worldPos, i + 1, closestDist, insertionIndex)

\* "insertionIndex = 0" in place of "insertionIndex = points.length"
findInsertionIndexFront(pts, worldPos) ==
  insertionLoop(pts, worldPos, 0, Infinity, 0)

\* closestDist = Infinity; insertionIndex = points.length; the loop
findInsertionIndex(pts, worldPos) ==
  insertionLoop(pts, worldPos, 0, Infinity, Len(pts))

\* points.splice(index, 0, item)
spliceInsert(pts, index, item) ==
  SubSeq(pts, 1, index) \o << item >> \o SubSeq(pts, index + 1, Len(pts))

\* points.splice(index + 1, 1)
spliceRemoveNext(pts, index) ==
  SubSeq(pts, 1, index + 1) \o SubSeq(pts, index + 3, Len(pts))

\* points.splice(index, 1)
spliceRemove(pts, index) ==
  SubSeq(pts, 1, index) \o SubSeq(pts, index + 2, Len(pts))

-----------------------------------------------------------------------------
(* Coordinate text inputs *)

\* the text of an input: a decimal number (val, in units of 1/TextDen) or a
\* text parseFloat cannot read (val 0 is the empty string)
NumberText(val) == [isNum |-> TRUE, val |-> val]
EmptyText == [isNum |-> FALSE, val |-> 0]
GarbageText == [isNum |-> FALSE, val |-> 1]

\* point.x.toFixed(2)
toFixed(v) == NumberText((v * TextDen) \div ModelDen)

\* parseFloat(input.value): a number or NaN
parseFloat(text) ==
  IF text.isNum
  THEN [nan |-> FALSE, val |-> (text.val * ModelDen) \div TextDen]
  ELSE [nan |-> TRUE, val |-> 0]

isNaN(number) == number.nan

\* updateCoordinateInputs(), as the values it leaves in the inputs
coordInputsFor(pts, sel) ==
  IF sel # Null /\ sel < Len(pts)
  THEN [x |-> toFixed(pts[sel + 1].x), y |-> toFixed(pts[sel + 1].y),
        disabled |-> FALSE]
  ELSE [x |-> EmptyText, y |-> EmptyText, disabled |-> TRUE]

updateCoordinateInputs(pts, sel) ==
  /\ xCoordInput' = coordInputsFor(pts, sel).x
  /\ yCoordInput' = coordInputsFor(pts, sel).y
  /\ coordDisabled' = coordInputsFor(pts, sel).disabled

-----------------------------------------------------------------------------
(* JSON values, persistence *)

\* a coordinate that holds a string instead of a number: what
\* new THREE.Vector2(p.x, p.y) stores when p.x or p.y is a JSON string
StringCoord == 999999
\* typeof v === 'number'
isNumber(v) == v # StringCoord

JNum(n) == [type |-> "number", val |-> n]
JStr == [type |-> "string", val |-> StringCoord]
JObj(x, y) == [kind |-> "object", x |-> x, y |-> y]
JNull == [kind |-> "null", x |-> JStr, y |-> JStr]

\* a JSON text that parses to a list
JArray(elems) == [kind |-> "array", elems |-> elems]

\* a number or a string as a JSON value
JValue(v) == IF isNumber(v) THEN JNum(v) ELSE JStr

\* JSON.stringify(points): a list of {x, y} records
JSONstringify(pts) ==
  [i \in 1..Len(pts) |-> JObj(JValue(pts[i].x), JValue(pts[i].y))]

\* json.map(p => new THREE.Vector2(p.x, p.y))
mapToVector2(json) ==
  [i \in 1..Len(json) |-> Vector2(json[i].x.val, json[i].y.val)]

\* localStorage without the item 'pendantPoints'
NoStorage == [present |-> FALSE, pendantPoints |-> JArray(<< >>)]

\* saveState(), as the storage it leaves
saveState(pts) ==
  [present |-> TRUE, pendantPoints |-> JArray(JSONstringify(pts))]

\* loadState() throws: JSON.parse(savedPoints) on a text that is no JSON,
\* pointsData.map on a value that is no list, p.x on a null element
loadStateThrows(storage) ==
  /\ storage.present
  /\ storage.pendantPoints.kind # "emptyText"
  /\ \/ storage.pendantPoints.kind # "array"
     \/ \E i \in 1..Len(storage.pendantPoints.elems) :
          storage.pendantPoints.elems[i].kind = "null"

\* loadState(), as the points it leaves when it does not throw; the empty
\* text fails "if (savedPoints)" like the absent item
loadState(storage) ==
  IF storage.present /\ storage.pendantPoints.kind # "emptyText"
  THEN mapToVector2(storage.pendantPoints.elems)
  ELSE cloneDefaults(DefaultObjects)

-----------------------------------------------------------------------------
(* Closure of the profile and the 3D model *)

\* the literal 0.01 of Math.max(0.01, pClone.x), in units of 1/GeomDen
MinRadius == 1

\* the caps without the test "x > 0"
userProfileCapsAlways(pts) ==
  << Vector2(0, pts[1].y) >> \o pts \o << Vector2(0, pts[Len(pts)].y) >>

\* the first cap only
userProfileNoLastCap(pts) ==
  IF pts[1].x > 0 THEN << Vector2(0, pts[1].y) >> \o pts ELSE pts

\* userProfile after the two caps
userProfile(pts) ==
  LET firstPoint == pts[1]
      capped == IF isNumber(firstPoint.x) /\ firstPoint.x > 0
                THEN << Vector2(0, firstPoint.y) >> \o pts
                ELSE pts
      lastPoint == capped[Len(capped)]
  IN IF isNumber(lastPoint.x) /\ lastPoint.x > 0
     THEN Append(capped, Vector2(0, lastPoint.y))
     ELSE capped

\* coordinates in units of 1/GeomDen; a string stays the string it is
inGeom(c) == IF isNumber(c) THEN (c * GeomDen) \div ModelDen ELSE c

\* the NaN that Math.max(0.01, x) gives for a string x that is no numeral
NaN == 999998

\* Math.max(0.01, pClone.x), in units of 1/GeomDen
clampRadius(x) == IF isNumber(x) THEN Max(MinRadius, inGeom(x)) ELSE NaN

\* the map without Math.max(0.01, pClone.x)
finalProfilePointsNoClamp(pts) ==
  LET profile == userProfile(pts)
  IN [i \in 1..Len(profile) |->
        Vector2(inGeom(profile[i].x), inGeom(profile[i].y))]

\* finalProfilePoints, in units of 1/GeomDen
finalProfilePoints(pts) ==
  LET profile == userProfile(pts)
  IN [i \in 1..Len(profile) |->
        Vector2(clampRadius(profile[i].x), inGeom(profile[i].y))]

\* let pendantMesh; let wireframeMesh;
NoMesh ==
  [defined |-> FALSE, geometry |-> << >>, disposed |-> FALSE,
   inScene |-> FALSE]

\* scene.remove(mesh); mesh.geometry.dispose()
removeAndDispose(mesh) ==
  IF mesh.defined
  THEN [mesh EXCEPT !.inScene = FALSE, !.disposed = TRUE]
  ELSE mesh

\* "if (points.length < 2) return;" as the first line: the old solid stays
builtMeshReturnsFirst(old, pts) ==
  IF Len(pts) < 2 THEN old
  ELSE [defined |-> TRUE, geometry |-> finalProfilePoints(pts),
        disposed |-> FALSE, inScene |-> TRUE]

\* update3DModel(), as the pendantMesh or wireframeMesh it leaves: both
\* meshes are built on the one new LatheGeometry
builtMesh(old, pts) ==
  IF Len(pts) < 2 THEN removeAndDispose(old)
  ELSE [defined |-> TRUE, geometry |-> finalProfilePoints(pts),
        disposed |-> FALSE, inScene |-> TRUE]

\* update3DModel(), as the storage it leaves: saveState() is its last line
builtStorage(old, pts) ==
  IF Len(pts) < 2 THEN old ELSE saveState(pts)

\* userProfile = points in place of [...points]: the caps go to the profile
builtPointsNoCopy(pts) == IF Len(pts) < 2 THEN pts ELSE userProfile(pts)

\* update3DModel(), as the points it leaves: the caps go to the copy
\* [...points] and the clamp to the clone of each point, so the profile the
\* handler prepared is left as it is
builtPoints(pts) == pts

update3DModel(pts) ==
  /\ points' = builtPoints(pts)
  /\ pendantMesh' = builtMesh(pendantMesh, pts)
  /\ wireframeMesh' = builtMesh(wireframeMesh, pts)
  /\ localStorage' = builtStorage(localStorage, pts)

-----------------------------------------------------------------------------
(* Inputs *)

Pos(x, y) == [x |-> x, y |-> y]

\* positions of a press or a double click on the canvas, in pixels:
\* on the first two default points, 5 px right of the second one, right of
\* the segment between the second and third, and left of the centre line
PressPositions ==
  { Pos(225, 100), Pos(275, 150), Pos(280, 150), Pos(300, 200),
    Pos(150, 200) }

\* positions of a pointer move anywhere in the window, the last two off the
\* canvas
MovePositions == { Pos(280, 150), Pos(-20, 450), Pos(500, -10) }

\* positions of a double click on the canvas: on the first two default
\* points and right of the segment between the second and third
DblClickPositions == { Pos(225, 100), Pos(275, 150), Pos(300, 200) }

\* contents of an imported file
ImportPayloads ==
  << [kind |-> "syntaxError", elems |-> << >>],
     [kind |-> "object", elems |-> << >>],
     [kind |-> "array", elems |-> << >>],
     [kind |-> "array", elems |-> << JObj(JNum(15), JNum(10)) >>],
     [kind |-> "array", elems |-> << JObj(JNum(10), JStr) >>],
     [kind |-> "array", elems |-> << JObj(JNum(15), JNum(10)), JNull >>],
     [kind |-> "array",
      elems |-> << JObj(JNum(15), JNum(10)), JObj(JNum(-5), JNum(-20)) >>],
     [kind |-> "array",
      elems |-> << JObj(JNum(0), JNum(30)), JObj(JNum(10), JNum(30)),
                   JObj(JNum(10), JNum(-30)), JObj(JNum(0), JNum(-30)) >>] >>

\* what a user types into a coordinate input: "-0.50" or "abc" for x,
\* "1.20" for y
UserEdits ==
  { << "x", NumberText(-50) >>, << "x", GarbageText >>,
    << "y", NumberText(120) >> }

\* the elements of a persisted list: two points, a point whose y or x is a
\* string, null
SnapshotElements ==
  { JObj(JNum(15), JNum(10)), JObj(JNum(5), JNum(-20)),
    JObj(JNum(10), JStr), JObj(JStr, JNum(10)), JNull }

\* the lists of at most n elements
SnapshotLists(n) ==
  UNION { [1..k -> SnapshotElements] : k \in 0..n }

\* What the item 'pendantPoints' of localStorage may hold when the page is
\* opened.  The storage outlives the page and is shared by the origin: the
\* item may be absent, or a text written by an earlier visit, by another
\* version or by another script: an empty text, a text that is no JSON, a
\* JSON value that is no list, or a list.
PersistedSnapshots ==
  { NoStorage }
  \cup { [present |-> TRUE, pendantPoints |-> [kind |-> k, elems |-> << >>]] :
           k \in {"emptyText", "syntaxError", "object"} }
  \cup { [present |-> TRUE, pendantPoints |-> JArray(elems)] :
           elems \in SnapshotLists(MaxSnapshot) }

\* the last event: the handler that ran and the message it alerted
Op(kind, alert) == [kind |-> kind, alert |-> alert]

\* no double-click gesture is followed
NoGesture == [pos |-> Pos(0, 0), before |-> << >>]

\* every event is counted; the model follows MaxSteps events.  gesture is
\* the record of the gesture a behaviour follows, fixed when it starts.
Count == steps < MaxSteps /\ steps' = steps + 1 /\ gesture' = gesture

\* no file has been downloaded yet
NoDownload == [made |-> FALSE, stl |-> << >>, json |-> << >>]

\* an event of a handler other than exportData: it downloads nothing
Tick == Count /\ download' = download

-----------------------------------------------------------------------------
(* Startup *)

\* loadState(); drawProfile(); update3DModel(); updateCoordinateInputs()
\* on a first visit: localStorage holds nothing
Init ==
  LET loaded == loadState(NoStorage)
  IN /\ points = builtPoints(loaded)
     /\ selectedPoint = Null
     /\ isDragging = FALSE
     /\ listeners = {}
     /\ xCoordInput = coordInputsFor(loaded, Null).x
     /\ yCoordInput = coordInputsFor(loaded, Null).y
     /\ coordDisabled = coordInputsFor(loaded, Null).disabled
     /\ pendantMesh = builtMesh(NoMesh, loaded)
     /\ wireframeMesh = builtMesh(NoMesh, loaded)
     /\ localStorage = builtStorage(NoStorage, loaded)
     /\ download = NoDownload
     /\ lastOp = Op("startApp", "")
     /\ steps = 0
     /\ defaultPoints = DefaultObjects
     /\ gesture = NoGesture

\* The page is loaded: the script runs on the storage left behind.  The
\* declarations set points to the default profile, the selection to null and
\* leave the meshes undefined; then loadState(), drawProfile(),
\* update3DModel(), updateCoordinateInputs() run.  When loadState() throws,
\* the script ends there: the inputs stay as the page's markup has them
\* (empty, enabled or not).
StartApp ==
  LET loaded == loadState(localStorage)
  IN /\ selectedPoint' = Null
     /\ isDragging' = FALSE
     /\ listeners' = {}
     /\ IF loadStateThrows(localStorage)
        THEN /\ points' = cloneDefaults(DefaultObjects)
             /\ xCoordInput' = EmptyText
             /\ yCoordInput' = EmptyText
             /\ coordDisabled' \in BOOLEAN
             /\ pendantMesh' = NoMesh
             /\ wireframeMesh' = NoMesh
             /\ localStorage' = localStorage
        ELSE /\ points' = builtPoints(loaded)
             /\ updateCoordinateInputs(loaded, Null)
             /\ pendantMesh' = builtMesh(NoMesh, loaded)
             /\ wireframeMesh' = builtMesh(NoMesh, loaded)
             /\ localStorage' = builtStorage(localStorage, loaded)
     /\ lastOp' = Op("startApp", "")
     /\ defaultPoints' = DefaultObjects
     /\ Tick

-----------------------------------------------------------------------------
(* Pointer handlers *)

\* profileCanvas 'mousedown'
MouseDown(mousePos) ==
  LET hit == hitLoop(points, mousePos, 0)
      pointFound == hit # Null
      worldPos == toWorldCoords(mousePos)
      insertionIndex == findInsertionIndex(points, worldPos)
      newPoints == IF pointFound THEN points
                   ELSE spliceInsert(points, insertionIndex, worldPos)
      newSelected == IF pointFound THEN hit ELSE insertionIndex
  IN /\ pointFound \/ Len(points) < MaxPoints
     /\ selectedPoint' = newSelected
     /\ isDragging' = IF pointFound THEN TRUE ELSE isDragging
     /\ listeners' = IF pointFound
                     THEN listeners \cup {"mousemove", "mouseup"}
                     ELSE listeners
     /\ updateCoordinateInputs(newPoints, newSelected)
     /\ update3DModel(newPoints)
     /\ lastOp' = Op("mousedown", "")
     /\ defaultPoints' = defaultPoints
     /\ Tick

\* handleMouseMove without the clamp of the pointer to the canvas
handleMouseMoveNoClamp(pos) ==
  LET converted == toWorldCoords(pos)
      worldPos == Vector2(Max(0, converted.x), converted.y)
      newPoints == [points EXCEPT ![selectedPoint + 1] = worldPos]
  IN /\ updateCoordinateInputs(newPoints, selectedPoint)
     /\ update3DModel(newPoints)

\* handleMouseMove(event), once the early return is passed
handleMouseMove(pos) ==
  LET mouseX == Max(0, Min(W, pos.x))
      mouseY == Max(0, Min(H, pos.y))
      converted == toWorldCoords(Pos(mouseX, mouseY))
      worldPos == Vector2(Max(0, converted.x), converted.y)
      newPoints == [points EXCEPT ![selectedPoint + 1] = worldPos]
  IN /\ updateCoordinateInputs(newPoints, selectedPoint)
     /\ update3DModel(newPoints)

\* a pointer move in the window: handleMouseMove runs if it is installed
MouseMove(pos) ==
  /\ IF "mousemove" \in listeners /\ isDragging /\ selectedPoint # Null
     THEN handleMouseMove(pos)
     ELSE UNCHANGED << points, xCoordInput, yCoordInput, coordDisabled,
                       pendantMesh, wireframeMesh, localStorage >>
  /\ UNCHANGED << selectedPoint, isDragging, listeners >>
  /\ lastOp' = Op("mousemove", "")
  /\ defaultPoints' = defaultPoints
  /\ Tick

\* handleMouseUp without removeEventListener('mousemove', ...)
MouseUpLeaksListener ==
  /\ IF "mouseup" \in listeners
     THEN isDragging' = FALSE /\ listeners' = listeners \ {"mouseup"}
     ELSE UNCHANGED << isDragging, listeners >>
  /\ UNCHANGED << points, selectedPoint, xCoordInput, yCoordInput,
                  coordDisabled, pendantMesh, wireframeMesh, localStorage >>
  /\ lastOp' = Op("mouseup", "")
  /\ defaultPoints' = defaultPoints
  /\ Tick

\* a pointer release in the window: handleMouseUp runs if it is installed
MouseUp ==
  /\ IF "mouseup" \in listeners
     THEN isDragging' = FALSE /\ listeners' = {}
     ELSE UNCHANGED << isDragging, listeners >>
  /\ UNCHANGED << points, selectedPoint, xCoordInput, yCoordInput,
                  coordDisabled, pendantMesh, wireframeMesh, localStorage >>
  /\ lastOp' = Op("mouseup", "")
  /\ defaultPoints' = defaultPoints
  /\ Tick

RECURSIVE dblclickLoopNoFloor(_, _, _)
\* the loop without the floor of two points
dblclickLoopNoFloor(pts, mousePos, i) ==
  IF i >= Len(pts) THEN Null
  ELSE IF isHit(pts[i + 1], mousePos) THEN i
  ELSE dblclickLoopNoFloor(pts, mousePos, i + 1)

RECURSIVE dblclickLoop(_, _, _)
\* the loop of the dblclick handler: the index it removes, or Null
dblclickLoop(pts, mousePos, i) ==
  IF i >= Len(pts) THEN Null
  ELSE IF isHit(pts[i + 1], mousePos) /\ Len(pts) > 2 THEN i
  ELSE dblclickLoop(pts, mousePos, i + 1)

\* the handler without "selectedPoint = null"
DblClickKeepsSelection(mousePos) ==
  LET removed == dblclickLoop(points, mousePos, 0)
      newPoints == spliceRemove(points, removed)
  IN /\ IF removed # Null
        THEN /\ selectedPoint' = selectedPoint
             /\ updateCoordinateInputs(newPoints, selectedPoint)
             /\ update3DModel(newPoints)
        ELSE UNCHANGED << points, selectedPoint, xCoordInput, yCoordInput,
                          coordDisabled, pendantMesh, wireframeMesh,
                          localStorage >>
     /\ UNCHANGED << isDragging, listeners >>
     /\ lastOp' = Op("dblclick", "")
     /\ defaultPoints' = defaultPoints
     /\ Tick

\* profileCanvas 'dblclick'
DblClick(mousePos) ==
  LET removed == dblclickLoop(points, mousePos, 0)
      newPoints == spliceRemove(points, removed)
  IN /\ IF removed # Null
        THEN /\ selectedPoint' = Null
             /\ updateCoordinateInputs(newPoints, Null)
             /\ update3DModel(newPoints)
        ELSE UNCHANGED << points, selectedPoint, xCoordInput, yCoordInput,
                          coordDisabled, pendantMesh, wireframeMesh,
                          localStorage >>
     /\ UNCHANGED << isDragging, listeners >>
     /\ lastOp' = Op("dblclick", "")
     /\ defaultPoints' = defaultPoints
     /\ Tick

-----------------------------------------------------------------------------
(* Coordinate edit, reset, import, display toggles *)

\* handleCoordinateChange without the isNaN test
CoordinateChangeNoNaNTest(field, text) ==
  LET xText == IF field = "x" /\ ~coordDisabled THEN text ELSE xCoordInput
      yText == IF field = "y" /\ ~coordDisabled THEN text ELSE yCoordInput
      newX == parseFloat(xText)
      newY == parseFloat(yText)
      newPoints == [points EXCEPT ![selectedPoint + 1].x = Max(0, newX.val),
                                  ![selectedPoint + 1].y = newY.val]
  IN /\ xCoordInput' = xText
     /\ yCoordInput' = yText
     /\ IF selectedPoint # Null
        THEN /\ update3DModel(newPoints)
             /\ defaultPoints' = defaultsAfterWrite(defaultPoints, newPoints)
        ELSE UNCHANGED << points, pendantMesh, wireframeMesh, localStorage,
                          defaultPoints >>
     /\ UNCHANGED << selectedPoint, isDragging, listeners, coordDisabled >>
     /\ lastOp' = Op("coordinateChange", "")
     /\ Tick

\* a 'change' event of xCoordInput or yCoordInput: the user has typed text
\* into the input named by field (a disabled input keeps its text), then
\* handleCoordinateChange() runs
CoordinateChange(field, text) ==
  LET xText == IF field = "x" /\ ~coordDisabled THEN text ELSE xCoordInput
      yText == IF field = "y" /\ ~coordDisabled THEN text ELSE yCoordInput
      newX == parseFloat(xText)
      newY == parseFloat(yText)
      newPoints == [points EXCEPT ![selectedPoint + 1].x = Max(0, newX.val),
                                  ![selectedPoint + 1].y = newY.val]
  IN /\ xCoordInput' = xText
     /\ yCoordInput' = yText
     /\ IF selectedPoint # Null /\ ~isNaN(newX) /\ ~isNaN(newY)
        THEN /\ update3DModel(newPoints)
             /\ defaultPoints' = defaultsAfterWrite(defaultPoints, newPoints)
        ELSE UNCHANGED << points, pendantMesh, wireframeMesh, localStorage,
                          defaultPoints >>
     /\ UNCHANGED << selectedPoint, isDragging, listeners, coordDisabled >>
     /\ lastOp' = Op("coordinateChange", "")
     /\ Tick

\* resetState(); confirmed is the answer to confirm(...)
ResetState(confirmed) ==
  /\ IF confirmed
     THEN /\ selectedPoint' = Null
          /\ updateCoordinateInputs(cloneDefaults(defaultPoints), Null)
          /\ update3DModel(cloneDefaults(defaultPoints))
     ELSE UNCHANGED << points, selectedPoint, xCoordInput, yCoordInput,
                       coordDisabled, pendantMesh, wireframeMesh,
                       localStorage >>
  /\ UNCHANGED << isDragging, listeners >>
  /\ lastOp' = Op("resetState", "")
  /\ defaultPoints' = defaultPoints
  /\ Tick

RECURSIVE everyNumericXOnly(_, _)
\* the test without "typeof p.y === 'number'"
everyNumericXOnly(elems, i) ==
  IF i > Len(elems) THEN "true"
  ELSE IF elems[i].kind = "null" THEN "throws"
  ELSE IF elems[i].x.type = "number" THEN everyNumericXOnly(elems, i + 1)
  ELSE "false"

RECURSIVE everyNumeric(_, _)
\* json.every(p => typeof p.x === 'number' && typeof p.y === 'number'):
\* "true", "false", or "throws" when p is null
everyNumeric(elems, i) ==
  IF i > Len(elems) THEN "true"
  ELSE IF elems[i].kind = "null" THEN "throws"
  ELSE IF elems[i].x.type = "number" /\ elems[i].y.type = "number"
       THEN everyNumeric(elems, i + 1)
  ELSE "false"

\* the outcome of the try block of reader.onload
importOutcome(payload) ==
  IF payload.kind = "syntaxError" THEN "Error reading or parsing JSON file."
  ELSE IF payload.kind # "array" THEN "Invalid JSON file format."
  ELSE IF everyNumeric(payload.elems, 1) = "throws"
       THEN "Error reading or parsing JSON file."
  ELSE IF everyNumeric(payload.elems, 1) = "false"
       THEN "Invalid JSON file format."
  ELSE ""

\* exportButton 'click': exportData().  STLExporter.parse(pendantMesh) throws
\* on an undefined mesh, and then nothing is downloaded; otherwise
\* pendant.stl is written from the mesh's geometry (disposed or not) and
\* pendant.json from JSON.stringify(points).
ExportData ==
  /\ download' = IF pendantMesh.defined
                 THEN [made |-> TRUE, stl |-> pendantMesh.geometry,
                       json |-> JSONstringify(points)]
                 ELSE download
  /\ UNCHANGED << points, selectedPoint, isDragging, listeners, xCoordInput,
                  yCoordInput, coordDisabled, pendantMesh, wireframeMesh,
                  localStorage >>
  /\ lastOp' = Op("exportData", "")
  /\ defaultPoints' = defaultPoints
  /\ Count

\* the file chosen for an import: number 0 is the downloaded pendant.json,
\* the others are the files of ImportPayloads
importFile(n) == IF n = 0 THEN JArray(download.json) ELSE ImportPayloads[n]

\* an import that appends the file's points to the profile
ImportDataMerges(n) ==
  LET payload == importFile(n)
      alert == importOutcome(payload)
      newPoints == points \o mapToVector2(payload.elems)
  IN /\ n = 0 => download.made
     /\ IF alert = ""
        THEN /\ selectedPoint' = Null
             /\ updateCoordinateInputs(newPoints, Null)
             /\ update3DModel(newPoints)
        ELSE UNCHANGED << points, selectedPoint, xCoordInput, yCoordInput,
                          coordDisabled, pendantMesh, wireframeMesh,
                          localStorage >>
     /\ UNCHANGED << isDragging, listeners >>
     /\ lastOp' = Op("importData", alert)
     /\ defaultPoints' = defaultPoints
     /\ Tick

\* importData(event): reader.onload on the text of the chosen file
ImportData(n) ==
  LET payload == importFile(n)
      alert == importOutcome(payload)
      newPoints == mapToVector2(payload.elems)
  IN /\ n = 0 => download.made
     /\ IF alert = ""
        THEN /\ selectedPoint' = Null
             /\ updateCoordinateInputs(newPoints, Null)
             /\ update3DModel(newPoints)
        ELSE UNCHANGED << points, selectedPoint, xCoordInput, yCoordInput,
                          coordDisabled, pendantMesh, wireframeMesh,
                          localStorage >>
     /\ UNCHANGED << isDragging, listeners >>
     /\ lastOp' = Op("importData", alert)
     /\ defaultPoints' = defaultPoints
     /\ Tick

\* wireframeCheckbox 'change' and normalCheckbox 'change': either handler
\* ends with saveState().  The two display preferences themselves (the
\* checkboxes, the material, the wireframe's visibility) are not part of the
\* model.
CheckboxChange ==
  /\ localStorage' = saveState(points)
  /\ UNCHANGED << points, selectedPoint, isDragging, listeners, xCoordInput,
                  yCoordInput, coordDisabled, pendantMesh, wireframeMesh >>
  /\ lastOp' = Op("checkboxChange", "")
  /\ defaultPoints' = defaultPoints
  /\ Tick

\* animate: one frame of the render loop.  It asks for the next frame, lets
\* the orbit controls move the camera and draws the scene; it reads the
\* meshes in the scene and assigns none of the editor's variables.  A frame
\* runs between two handlers, never inside one.
Animate ==
  /\ UNCHANGED << points, selectedPoint, isDragging, listeners, xCoordInput,
                  yCoordInput, coordDisabled, pendantMesh, wireframeMesh,
                  localStorage >>
  /\ lastOp' = Op("animate", "")
  /\ defaultPoints' = defaultPoints
  /\ Tick

-----------------------------------------------------------------------------
(* Specification *)

Next ==
  \/ \E mousePos \in PressPositions : MouseDown(mousePos)
  \/ \E pos \in MovePositions : MouseMove(pos)
  \/ MouseUp
  \/ \E mousePos \in DblClickPositions : DblClick(mousePos)
  \/ \E edit \in UserEdits : CoordinateChange(edit[1], edit[2])
  \/ \E confirmed \in BOOLEAN : ResetState(confirmed)
  \/ \E n \in 1..Len(ImportPayloads) : ImportData(n)
  \/ CheckboxChange
  \/ StartApp

\* The editor, its storage and its startup.  exportData changes nothing but
\* the downloaded files, which only an import of them reads: it is left to
\* ExchangeSpec.
Spec == Init /\ [][Next]_vars

\* export and import of files among the pointer edits that change the profile
ExchangeNext ==
  \/ \E mousePos \in PressPositions : MouseDown(mousePos)
  \/ \E pos \in MovePositions : MouseMove(pos)
  \/ MouseUp
  \/ \E mousePos \in DblClickPositions : DblClick(mousePos)
  \/ \E confirmed \in BOOLEAN : ResetState(confirmed)
  \/ ExportData
  \/ \E n \in 0..Len(ImportPayloads) : ImportData(n)

ExchangeSpec == Init /\ [][ExchangeNext]_vars

\* The page about to be opened on any persisted snapshot: the declarations
\* have run (default profile, no selection, meshes undefined), the script's
\* startup has not.
LoadInit ==
  /\ points = cloneDefaults(DefaultObjects)
  /\ selectedPoint = Null
  /\ isDragging = FALSE
  /\ listeners = {}
  /\ xCoordInput = EmptyText
  /\ yCoordInput = EmptyText
  /\ coordDisabled \in BOOLEAN
  /\ pendantMesh = NoMesh
  /\ wireframeMesh = NoMesh
  /\ localStorage \in PersistedSnapshots
  /\ download = NoDownload
  /\ lastOp = Op("open", "")
  /\ steps = 0
  /\ defaultPoints = DefaultObjects
  /\ gesture = NoGesture

\* startup on the snapshot, then the handlers that do not read coordinates
LoadNext ==
  \/ StartApp
  \/ CheckboxChange
  \/ \E confirmed \in BOOLEAN : ResetState(confirmed)

LoadSpec == LoadInit /\ [][LoadNext]_vars

\* the render loop among the handlers that rebuild the solid
RenderNext ==
  \/ \E mousePos \in PressPositions : MouseDown(mousePos)
  \/ \E pos \in MovePositions : MouseMove(pos)
  \/ MouseUp
  \/ \E mousePos \in DblClickPositions : DblClick(mousePos)
  \/ \E confirmed \in BOOLEAN : ResetState(confirmed)
  \/ \E n \in 1..Len(ImportPayloads) : ImportData(n)
  \/ Animate

RenderSpec == Init /\ [][RenderNext]_vars

\* the events a double click on one spot of the canvas sends, in order; a
\* 'click' follows each release and has no handler
GestureEvents == << "mousedown", "mouseup", "mousedown", "mouseup", "dblclick" >>

\* the spots of the canvas a gesture is made on
GesturePositions == PressPositions \cup { Pos(100, 300), Pos(350, 50) }

\* the number of events of the gesture that have been handled
gesturePhase == steps - (MaxSteps - Len(GestureEvents))

\* The editor about to receive a double-click gesture on a spot that hits
\* no point: it is in the state the startup leaves (n = 0), or in the state
\* the import of the valid payload n leaves after the startup.  The count of
\* events starts Len(GestureEvents) before MaxSteps.
GestureInit ==
  \E n \in 0..Len(ImportPayloads) :
    LET start == loadState(NoStorage)
        imported == n > 0 /\ importOutcome(ImportPayloads[n]) = ""
        pts == IF imported THEN mapToVector2(ImportPayloads[n].elems)
               ELSE start
        startMesh == builtMesh(NoMesh, start)
        startStorage == builtStorage(NoStorage, start)
    IN /\ n = 0 \/ imported
       /\ points = builtPoints(pts)
       /\ selectedPoint = Null
       /\ isDragging = FALSE
       /\ listeners = {}
       /\ xCoordInput = coordInputsFor(pts, Null).x
       /\ yCoordInput = coordInputsFor(pts, Null).y
       /\ coordDisabled = coordInputsFor(pts, Null).disabled
       /\ pendantMesh = IF imported THEN builtMesh(startMesh, pts)
                        ELSE startMesh
       /\ wireframeMesh = IF imported THEN builtMesh(startMesh, pts)
                          ELSE startMesh
       /\ localStorage = IF imported THEN builtStorage(startStorage, pts)
                         ELSE startStorage
       /\ download = NoDownload
       /\ lastOp = IF imported THEN Op("importData", "")
                   ELSE Op("startApp", "")
       /\ steps = MaxSteps - Len(GestureEvents)
       /\ defaultPoints = DefaultObjects
       /\ \E pos \in GesturePositions :
            /\ hitLoop(pts, pos, 0) = Null
            /\ gesture = [pos |-> pos, before |-> pts]

\* the next event of the gesture, at the spot of the gesture
GestureNext ==
  \/ /\ gesturePhase < Len(GestureEvents)
     /\ GestureEvents[gesturePhase + 1] = "mousedown"
     /\ MouseDown(gesture.pos)
  \/ /\ gesturePhase < Len(GestureEvents)
     /\ GestureEvents[gesturePhase + 1] = "mouseup"
     /\ MouseUp
  \/ /\ gesturePhase < Len(GestureEvents)
     /\ GestureEvents[gesturePhase + 1] = "dblclick"
     /\ DblClick(gesture.pos)

GestureSpec == GestureInit /\ [][GestureNext]_vars

-----------------------------------------------------------------------------
(* Claims *)

\* the indices of the points within the hit radius of the cursor
hitSet(pts, mousePos) ==
  { i \in 0..(Len(pts) - 1) : isHit(pts[i + 1], mousePos) }

minOf(S) == CHOOSE i \in S : \A j \in S : i <= j

\* C1: from a profile of at least 2 points, a press (insert or begin-drag),
\* a double click (delete) or a pointer move (drag-update) leaves a profile
\* of at least 2 points.
C1_EditKeepsTwoPoints ==
  [][(/\ Len(points) >= 2
      /\ lastOp'.kind \in {"mousedown", "dblclick", "mousemove"})
     => Len(points') >= 2]_vars

\* the default profile deleted down to its last two points
C1_Witness ==
  /\ lastOp.kind = "dblclick"
  /\ points = SubSeq(DEFAULT_POINTS, 3, 4)

\* C2 (as claimed): the profile has at least 2 points in every state, whatever
\* operation (load, reset, import, insert, delete, drag, edit) led to it.
C2_ProfileAlwaysTwoPoints == Len(points) >= 2

\* C3: in every state the selection is none or an index of the profile.
C3_SelectionValid ==
  selectedPoint = Null \/ (0 <= selectedPoint /\ selectedPoint < Len(points))

\* a press has inserted a point and selected it, the last index of a profile
\* that was shorter than 2 points
C3_Witness ==
  /\ lastOp.kind = "mousedown"
  /\ ~isDragging
  /\ Len(points) <= 2
  /\ selectedPoint = Len(points) - 1

\* the points of pts other than the one at 0-based index k, in order
without(pts, k) ==
  [j \in 1..(Len(pts) - 1) |-> IF j <= k THEN pts[j] ELSE pts[j + 1]]

\* C4: a double click that hits a point of a profile longer than 2 removes
\* exactly the first point hit, keeps the others in order and clears the
\* selection; a double click that hits nothing, or a profile of 2 points or
\* fewer, leaves the profile as it is.
C4_DeleteOnDoubleClick ==
  [][lastOp'.kind = "dblclick" =>
       \A mousePos \in DblClickPositions :
         DblClick(mousePos) =>
           LET hits == hitSet(points, mousePos)
           IN IF hits # {} /\ Len(points) > 2
              THEN /\ Len(points') = Len(points) - 1
                   /\ points' = without(points, minOf(hits))
                   /\ selectedPoint' = Null
              ELSE points' = points]_vars

\* a double click has removed a point other than the first of a profile in
\* which a press had selected a point
C4_Witness ==
  /\ lastOp.kind = "dblclick"
  /\ Len(points) = 3
  /\ points[1] = DEFAULT_POINTS[1]
  /\ points[2] = DEFAULT_POINTS[3]
  /\ selectedPoint = Null
  /\ isDragging

\* the 0-based indices of the segments of pts
segments(pts) == 0..(Len(pts) - 2)

\* the lowest segment at minimum distance from worldPos
nearestSegment(pts, worldPos) ==
  LET d(i) == distanceToSegment(worldPos, pts[i + 1], pts[i + 2])
  IN CHOOSE i \in segments(pts) :
       /\ \A j \in segments(pts) : ~lessDist(d(j), d(i))
       /\ \A j \in segments(pts) : j < i => lessDist(d(i), d(j))

\* C5: a press that hits no point of a profile of at least 2 points inserts
\* one point right after the first point of the nearest segment (the lowest
\* one on ties): the profile is one longer, the points it had keep their
\* values and order, and the selection is the index of the new point.
C5_InsertOnClick ==
  [][(lastOp'.kind = "mousedown" /\ Len(points) >= 2) =>
       \A mousePos \in PressPositions :
         (hitSet(points, mousePos) = {} /\ MouseDown(mousePos))
         => LET i == nearestSegment(points, toWorldCoords(mousePos))
            IN /\ Len(points') = Len(points) + 1
               /\ without(points', i + 1) = points
               /\ selectedPoint' = i + 1]_vars

\* near the segment between index 1 and 2 of the default profile: 5 points,
\* the new one at index 2, selected
C5_Witness ==
  /\ lastOp.kind = "mousedown"
  /\ ~isDragging
  /\ Len(points) = 5
  /\ without(points, 2) = DEFAULT_POINTS
  /\ selectedPoint = 2

\* C6 (as claimed): the point a press inserts has x >= 0, wherever on the
\* canvas the press is.
C6_InsertedPointNonNegative ==
  [][lastOp'.kind = "mousedown" =>
       \A mousePos \in PressPositions :
         (hitSet(points, mousePos) = {} /\ MouseDown(mousePos))
         => points'[selectedPoint' + 1].x >= 0]_vars

\* C7 (as claimed): a press that hits no point of a profile of 2 points or
\* fewer puts the new point at the end of the list.
C7_ShortProfileInsertsAtEnd ==
  [][(lastOp'.kind = "mousedown" /\ Len(points) <= 2) =>
       \A mousePos \in PressPositions :
         (hitSet(points, mousePos) = {} /\ MouseDown(mousePos))
         => /\ selectedPoint' = Len(points)
            /\ without(points', Len(points)) = points]_vars

\* C7 (amended): a press that hits no point of a profile of fewer than 2
\* points puts the new point at the end of the list; on a profile of exactly
\* 2 points it puts it between the two, at index 1.
C7_NoSegmentInsertsAtEnd ==
  [][(lastOp'.kind = "mousedown" /\ Len(points) <= 2) =>
       \A mousePos \in PressPositions :
         (hitSet(points, mousePos) = {} /\ MouseDown(mousePos))
         => /\ Len(points) < 2 =>
                 /\ selectedPoint' = Len(points)
                 /\ Len(points') = Len(points) + 1
                 /\ without(points', Len(points)) = points
            /\ Len(points) = 2 =>
                 /\ selectedPoint' = 1
                 /\ Len(points') = 3
                 /\ without(points', 1) = points]_vars

\* a press has inserted a second point after the only point of a profile
C7_Witness ==
  /\ lastOp.kind = "mousedown"
  /\ ~isDragging
  /\ Len(points) = 2
  /\ points[1] = Vector2(15, 10)
  /\ selectedPoint = 1
  /\ points[2] # Vector2(-5, -20)

\* C8: a press with one or more points within the hit radius selects the
\* lowest such index, enters the dragging state and leaves the point list
\* unchanged; a press enters the dragging state only if it hits a point.
C8_HitTestBeginDrag ==
  [][lastOp'.kind = "mousedown" =>
       \A mousePos \in PressPositions :
         MouseDown(mousePos) =>
           LET hits == hitSet(points, mousePos)
           IN /\ hits # {} =>
                   /\ selectedPoint' = minOf(hits)
                   /\ isDragging'
                   /\ points' = points
              /\ (~isDragging /\ isDragging') => hits # {}]_vars

\* a press has selected index 0 where the points at index 0 and 1 are both
\* within the hit radius of the cursor, 5 px apart
C8_Witness ==
  /\ lastOp.kind = "mousedown"
  /\ isDragging
  /\ selectedPoint = 0
  /\ Len(points) >= 2
  /\ points[1] = Vector2(16, 10)
  /\ points[2] = Vector2(15, 10)

\* C9: the window listeners are installed exactly while dragging, after a
\* pointer release the editor is not dragging and no listener is installed,
\* and a pointer move while not dragging changes neither the profile nor the
\* selection.
C9_EndDrag ==
  /\ [](/\ listeners = (IF isDragging THEN {"mousemove", "mouseup"} ELSE {})
        /\ lastOp.kind = "mouseup" => (~isDragging /\ listeners = {}))
  /\ [][(lastOp'.kind = "mousemove" /\ ~isDragging)
        => (points' = points /\ selectedPoint' = selectedPoint)]_vars

\* a drag that left the canvas at its lower left has been released
C9_Witness ==
  /\ lastOp.kind = "mouseup"
  /\ selectedPoint # Null
  /\ selectedPoint < Len(points)
  /\ points[selectedPoint + 1] = Vector2(0, -40)
  /\ ~isDragging
  /\ listeners = {}

\* C10: while dragging with a selection, a pointer move overwrites the
\* selected point with the model-space image of the pointer clamped to the
\* canvas, x clamped to >= 0: the point is displayed at the clamped pointer
\* (or on the centre line when the pointer is left of it), it has
\* 0 <= x <= W/(2S) and |y| <= H/(2S), and the length, the selection and
\* every other point are unchanged.
C10_DragUpdate ==
  [][\A pos \in MovePositions :
       (/\ lastOp'.kind = "mousemove"
        /\ isDragging
        /\ selectedPoint # Null
        /\ MouseMove(pos))
       => LET mouseX == Max(0, Min(W, pos.x))
              mouseY == Max(0, Min(H, pos.y))
              dragged == points'[selectedPoint + 1]
          IN /\ toCanvasCoords(dragged).y = mouseY
             /\ IF 2 * mouseX >= W
                THEN toCanvasCoords(dragged).x = mouseX
                ELSE dragged.x = 0
             /\ 0 <= dragged.x
             /\ dragged.x * 2 * worldScale <= W * ModelDen
             /\ dragged.y * 2 * worldScale <= H * ModelDen
             /\ -(dragged.y * 2 * worldScale) <= H * ModelDen
             /\ Len(points') = Len(points)
             /\ selectedPoint' = selectedPoint
             /\ \A j \in 1..Len(points) :
                  j # selectedPoint + 1 => points'[j] = points[j]]_vars

\* the first point has been dragged beyond the upper right corner of the
\* canvas: it is at x = W/(2S), y = H/(2S)
C10_Witness ==
  /\ lastOp.kind = "mousemove"
  /\ isDragging
  /\ selectedPoint = 0
  /\ points[1] = Vector2(40, 40)

\* C11: a change of a coordinate input with a point selected and both texts
\* numbers sets the selected point to (max(0, x), y) and changes no other
\* point, nor the length, nor the selection; when a text is not a number or
\* nothing is selected, the profile and the selection stay as they were;
\* either way nothing is alerted and the dragging state is untouched.
C11_DirectCoordinateEdit ==
  [][lastOp'.kind = "coordinateChange" =>
       LET x == parseFloat(xCoordInput')
           y == parseFloat(yCoordInput')
       IN /\ selectedPoint' = selectedPoint
          /\ Len(points') = Len(points)
          /\ lastOp'.alert = ""
          /\ isDragging' = isDragging
          /\ listeners' = listeners
          /\ IF selectedPoint # Null /\ ~isNaN(x) /\ ~isNaN(y)
             THEN /\ points'[selectedPoint + 1].x = Max(0, x.val)
                  /\ points'[selectedPoint + 1].y = y.val
                  /\ \A j \in 1..Len(points) :
                       j # selectedPoint + 1 => points'[j] = points[j]
             ELSE points' = points]_vars

\* "-0.50" has been typed as the x of the selected point, which is now on
\* the centre line
C11_Witness ==
  /\ lastOp.kind = "coordinateChange"
  /\ selectedPoint # Null
  /\ selectedPoint < Len(points)
  /\ xCoordInput = NumberText(-50)
  /\ points[selectedPoint + 1].x = 0

\* the solid is in the scene, built by the last run of update3DModel
solidBuilt ==
  /\ pendantMesh.defined /\ ~pendantMesh.disposed /\ pendantMesh.inScene
  /\ wireframeMesh.defined /\ ~wireframeMesh.disposed
  /\ wireframeMesh.geometry = pendantMesh.geometry

\* C12: for a profile of at least 2 points the lathe profile is: a cap at
\* the first point's height if and only if the first x > 0, the profile's
\* points in order, a cap at the last point's height if and only if the last
\* x > 0; every x is max(0.01, x), a cap's x being max(0.01, 0), and every y
\* is unchanged; a profile whose first and last x are 0 gets no caps.
C12_RevolutionProfile ==
  Len(points) >= 2 =>
    LET g == pendantMesh.geometry
        n == Len(points)
        capFirst == points[1].x > 0
        capLast == points[n].x > 0
        off == IF capFirst THEN 1 ELSE 0
    IN /\ solidBuilt
       /\ Len(g) = n + off + (IF capLast THEN 1 ELSE 0)
       /\ capFirst => g[1] = Vector2(MinRadius, inGeom(points[1].y))
       /\ capLast => g[Len(g)] = Vector2(MinRadius, inGeom(points[n].y))
       /\ \A j \in 1..n :
            /\ g[j + off].x = Max(MinRadius, inGeom(points[j].x))
            /\ g[j + off].y = inGeom(points[j].y)
       /\ (points[1].x = 0 /\ points[n].x = 0) => Len(g) = n

\* the profile (0,3), (1,3), (1,-3), (0,-3) has been imported: the lathe
\* profile has its 4 points, the first at radius 0.01
C12_Witness ==
  /\ lastOp.kind = "importData"
  /\ points = << Vector2(0, 30), Vector2(10, 30), Vector2(10, -30),
                 Vector2(0, -30) >>
  /\ solidBuilt
  /\ Len(pendantMesh.geometry) = 4
  /\ pendantMesh.geometry[1] = Vector2(MinRadius, 300)

\* C13 (as claimed): the lathe profile of the default profile is (0,2), the
\* 4 default points, (0,-2).
C13_DefaultClosureCapsAtZero ==
  points = DEFAULT_POINTS =>
    pendantMesh.geometry =
      << Vector2(0, 200), Vector2(50, 200), Vector2(150, 100),
         Vector2(150, -100), Vector2(50, -200), Vector2(0, -200) >>

\* C13 (amended): the lathe profile of the default profile has exactly 6
\* points: the cap (0.01, 2), the 4 default points with x and y unchanged,
\* and the cap (0.01, -2); the caps are clamped to the radius 0.01 like
\* every other point.
C13_DefaultClosure ==
  points = DEFAULT_POINTS =>
    /\ solidBuilt
    /\ pendantMesh.geometry =
         << Vector2(MinRadius, 200), Vector2(50, 200), Vector2(150, 100),
            Vector2(150, -100), Vector2(50, -200), Vector2(MinRadius, -200) >>

\* a reset has restored the default profile and rebuilt its solid
C13_Witness ==
  /\ lastOp.kind = "resetState"
  /\ points = DEFAULT_POINTS
  /\ solidBuilt
  /\ Len(pendantMesh.geometry) = 6
  /\ steps >= 2

\* C14: every point of the lathe profile of the solid in the scene has
\* x >= 0.01, whatever the profile (points with zero or negative x included).
C14_RadiusAtLeastMin ==
  solidBuilt =>
    \A j \in 1..Len(pendantMesh.geometry) :
      pendantMesh.geometry[j].x >= MinRadius

\* the page has been loaded again on a saved profile with a point of
\* negative x, and the solid is built
C14_Witness ==
  /\ lastOp.kind = "startApp"
  /\ steps >= 1
  /\ solidBuilt
  /\ \E j \in 1..Len(points) : points[j].x < 0

\* C15: a rebuild leaves the profile and the selection as the handler set
\* them: after a press on a point the profile is the one before the press
\* and the point is selected; after an inserting press the profile is one
\* point longer and is the old one around the selected new point; a reset
\* leaves exactly the default profile, an accepted import exactly the
\* imported points, a startup exactly the saved points, all unselected.
C15_RebuildKeepsProfile ==
  [][/\ lastOp'.kind = "mousedown" =>
          \A mousePos \in PressPositions :
            MouseDown(mousePos) =>
              IF hitSet(points, mousePos) # {}
              THEN /\ points' = points
                   /\ selectedPoint' = minOf(hitSet(points, mousePos))
              ELSE /\ Len(points') = Len(points) + 1
                   /\ without(points', selectedPoint') = points
     /\ lastOp'.kind = "resetState" =>
          \A confirmed \in BOOLEAN :
            ResetState(confirmed) =>
              IF confirmed
              THEN points' = DEFAULT_POINTS /\ selectedPoint' = Null
              ELSE points' = points /\ selectedPoint' = selectedPoint
     /\ lastOp'.kind = "importData" =>
          \A n \in 1..Len(ImportPayloads) :
            (ImportData(n) /\ lastOp'.alert = "") =>
              /\ Len(points') = Len(ImportPayloads[n].elems)
              /\ JSONstringify(points') = ImportPayloads[n].elems
              /\ selectedPoint' = Null
     /\ lastOp'.kind = "startApp" =>
          /\ JSONstringify(points') = localStorage.pendantPoints.elems
          /\ selectedPoint' = Null]_vars

\* a press on the second default point has rebuilt the solid with its two
\* caps while the profile still is the 4 default points
C15_Witness ==
  /\ lastOp.kind = "mousedown"
  /\ isDragging
  /\ selectedPoint = 1
  /\ points = DEFAULT_POINTS
  /\ solidBuilt
  /\ Len(pendantMesh.geometry) = 6

\* C16: while the profile has fewer than 2 points no solid is in the scene
\* (the old one was removed and disposed, none was built) and nothing is
\* alerted for it; the handlers keep their effect: from such a profile a
\* press that hits no point inserts its point at the end and selects it (a
\* press on the one point selects it), a confirmed reset restores the
\* default profile and its solid, an accepted import replaces the profile,
\* an edit changes the selected point only; the solid is back as soon as the
\* profile has 2 points.
C16_DegenerateProfile ==
  /\ [](Len(points) < 2 =>
          /\ ~pendantMesh.inScene /\ ~wireframeMesh.inScene
          /\ ~solidBuilt
          /\ lastOp.kind \in {"mousedown", "coordinateChange"}
               => lastOp.alert = "")
  /\ [][Len(points) < 2 =>
          /\ lastOp'.kind = "mousedown" =>
               \A mousePos \in PressPositions :
                 MouseDown(mousePos) =>
                   /\ IF hitSet(points, mousePos) # {}
                      THEN points' = points /\ selectedPoint' = 0
                      ELSE /\ Len(points') = Len(points) + 1
                           /\ selectedPoint' = Len(points)
                           /\ without(points', selectedPoint') = points
                   /\ lastOp'.alert = ""
                   /\ solidBuilt' <=> Len(points') >= 2
          /\ lastOp'.kind = "resetState" =>
               \/ points' = DEFAULT_POINTS /\ solidBuilt'
               \/ UNCHANGED << points, selectedPoint, pendantMesh >>
          /\ (lastOp'.kind = "importData" /\ lastOp'.alert = "") =>
               /\ selectedPoint' = Null
               /\ solidBuilt' <=> Len(points') >= 2
          /\ lastOp'.kind = "coordinateChange" =>
               /\ Len(points') = Len(points)
               /\ selectedPoint' = selectedPoint
               /\ ~solidBuilt']_vars

\* a press on an empty profile has inserted and selected its first point;
\* the solid built earlier is disposed and out of the scene
C16_Witness ==
  /\ lastOp.kind = "mousedown"
  /\ Len(points) = 1
  /\ selectedPoint = 0
  /\ pendantMesh.defined
  /\ pendantMesh.disposed
  /\ ~pendantMesh.inScene

\* a payload the import has to accept: a list whose every element is an
\* object with a numeric x and a numeric y
validPayload(payload) ==
  /\ payload.kind = "array"
  /\ \A i \in 1..Len(payload.elems) :
       /\ payload.elems[i].kind = "object"
       /\ payload.elems[i].x.type = "number"
       /\ payload.elems[i].y.type = "number"

\* C17: an import whose text does not parse, or is not a list, or has an
\* element whose x or y is not a number, is rejected: the profile, the
\* selection, the solid and the storage are as before, and a message is
\* alerted.
C17_ImportValidation ==
  [][lastOp'.kind = "importData" =>
       \A n \in 1..Len(ImportPayloads) :
         (ImportData(n) /\ ~validPayload(ImportPayloads[n])) =>
           /\ points' = points
           /\ selectedPoint' = selectedPoint
           /\ pendantMesh' = pendantMesh
           /\ localStorage' = localStorage
           /\ lastOp'.alert # ""]_vars

\* an import has been rejected as not of the format while a point inserted
\* by a press was selected: the 5-point profile and the selection are kept
C17_Witness ==
  /\ lastOp = Op("importData", "Invalid JSON file format.")
  /\ Len(points) = 5
  /\ selectedPoint # Null
  /\ points[selectedPoint + 1] = Vector2(20, 0)

\* the list elems holds the points pts as {x, y} records, in order
sameList(elems, pts) ==
  /\ Len(elems) = Len(pts)
  /\ \A i \in 1..Len(pts) :
       /\ elems[i].kind = "object"
       /\ elems[i].x = JNum(pts[i].x)
       /\ elems[i].y = JNum(pts[i].y)

\* C18: an export writes the profile's points as {x, y} records in order and
\* leaves the profile alone; an import of the exported file is accepted and
\* leaves exactly the exported points in their order, nothing selected,
\* whatever the profile was before; every accepted import leaves exactly the
\* points of its file.
C18_ExportImportRoundTrip ==
  [][/\ (lastOp'.kind = "exportData" /\ pendantMesh.defined) =>
          /\ download'.made
          /\ sameList(download'.json, points)
          /\ points' = points
          /\ selectedPoint' = selectedPoint
     /\ lastOp'.kind = "importData" =>
          \A n \in 0..Len(ImportPayloads) :
            (ImportData(n) /\ validPayload(importFile(n))) =>
              /\ lastOp'.alert = ""
              /\ sameList(importFile(n).elems, points')
              /\ selectedPoint' = Null
     /\ (lastOp'.kind = "importData" /\ ImportData(0)) =>
          validPayload(importFile(0))]_vars

\* a profile of 5 points was exported and, as the fourth event, the
\* exported file was imported: the profile is the file's 5 points, unselected
C18_Witness ==
  /\ lastOp = Op("importData", "")
  /\ steps = 4
  /\ download.made
  /\ Len(points) = 5
  /\ sameList(download.json, points)
  /\ selectedPoint = Null

\* a snapshot the startup has to accept: a list whose every element is an
\* object with a numeric x and a numeric y
validSnapshot(storage) ==
  /\ storage.present
  /\ validPayload(storage.pendantPoints)

\* C19 (as claimed): at startup an absent snapshot gives the default
\* profile; a snapshot becomes the profile only if it is a list whose every
\* element has numeric x and y; after a startup on an invalid snapshot the
\* profile is not the snapshot's list and holds numbers only.
C19_LoadValidates ==
  [][lastOp'.kind = "startApp" =>
       /\ ~localStorage.present => points' = DEFAULT_POINTS
       /\ (localStorage.present /\ ~validSnapshot(localStorage)) =>
            /\ \A i \in 1..Len(points') :
                 isNumber(points'[i].x) /\ isNumber(points'[i].y)
            /\ \/ localStorage.pendantPoints.kind # "array"
               \/ JSONstringify(points') # localStorage.pendantPoints.elems]_vars

\* C20: for every point p of the profile toWorldCoords(toCanvasCoords(p)) is
\* p; for every pointer position q of the model's events
\* toCanvasCoords(toWorldCoords(q)) is q; the model origin is displayed at
\* (W/2, H/2), one model unit is worldScale = 50 pixels, and of two points
\* the one with the larger model y has the smaller display y.
C20_CoordinateRoundTrip ==
  /\ \A i \in 1..Len(points) :
       toWorldCoords(toCanvasCoords(points[i])) = points[i]
  /\ \A q \in PressPositions \cup MovePositions \cup DblClickPositions :
       toCanvasCoords(toWorldCoords(q)) = q
  /\ toCanvasCoords(Vector2(0, 0)) = Pos(W \div 2, H \div 2)
  /\ toCanvasCoords(Vector2(ModelDen, 0)).x - W \div 2 = worldScale
  /\ toCanvasCoords(Vector2(0, ModelDen)).y - H \div 2 = -worldScale
  /\ \A i, j \in 1..Len(points) :
       points[i].y > points[j].y
         => toCanvasCoords(points[i]).y < toCanvasCoords(points[j]).y

\* a press at (300, 200) has inserted the point (2.0, 0), which is displayed
\* where the press was
C20_Witness ==
  /\ lastOp.kind = "mousedown"
  /\ selectedPoint # Null
  /\ selectedPoint < Len(points)
  /\ points[selectedPoint + 1] = Vector2(20, 0)
  /\ toCanvasCoords(points[selectedPoint + 1]) = Pos(300, 200)
  /\ toWorldCoords(Pos(300, 200)) = points[selectedPoint + 1]

\* C21 (as claimed): whenever exportData runs, the solid it hands to the
\* exporter is a live solid in the scene, built from the lathe profile of
\* the current profile, and pendant.stl is written from it.
C21_ExportLatestSolid ==
  [][lastOp'.kind = "exportData" =>
       /\ pendantMesh.defined
       /\ ~pendantMesh.disposed
       /\ pendantMesh.inScene
       /\ Len(points) >= 2
       /\ pendantMesh.geometry = finalProfilePoints(points)
       /\ download'.made
       /\ download'.stl = finalProfilePoints(points)]_vars

\* The handlers that change the profile: press (insert), double click
\* (delete), move (drag), coordinate change (direct edit), reset and import.
mutatingKinds ==
  {"mousedown", "dblclick", "mousemove", "coordinateChange", "resetState",
   "importData"}

\* C22 (as claimed): every operation that changes the profile ends with a
\* persistence snapshot, so once it has completed the persisted point list
\* equals the current profile.
C22_MutationPersisted ==
  [][(lastOp'.kind \in mutatingKinds /\ points' # points) =>
       localStorage' = saveState(points')]_vars

\* C23 (as claimed): at every frame of the render loop the scene holds a
\* complete solid, the solid mesh and the wireframe both in the scene, not
\* disposed and sharing one geometry, and the frame changes neither the
\* profile nor the selection nor the dragging state.
C23_RenderSeesCompleteSolid ==
  [][lastOp'.kind = "animate" =>
       /\ solidBuilt
       /\ wireframeMesh.inScene
       /\ UNCHANGED << points, selectedPoint, isDragging >>]_vars

\* C24: on a profile of at least 2 points a press that hits no point inserts
\* at an index in 1..Len(points)-1, so the first and the last point of the
\* profile, and with them the caps the closure adds, are the same after the
\* insertion as before it.
C24_InsertionKeepsEnds ==
  [][(lastOp'.kind = "mousedown" /\ Len(points) >= 2) =>
       \A mousePos \in PressPositions :
         (hitSet(points, mousePos) = {} /\ MouseDown(mousePos))
         => /\ selectedPoint' \in 1..(Len(points) - 1)
            /\ Len(points') = Len(points) + 1
            /\ points'[1] = points[1]
            /\ points'[Len(points')] = points[Len(points)]
            /\ (points'[1].x > 0) = (points[1].x > 0)
            /\ (points'[Len(points')].x > 0) = (points[Len(points)].x > 0)]_vars

\* a point inserted into the default profile, strictly between its two ends
C24_Witness ==
  /\ lastOp.kind = "mousedown"
  /\ Len(points) = Len(DEFAULT_POINTS) + 1
  /\ selectedPoint \in 1..(Len(DEFAULT_POINTS) - 1)
  /\ points[1] = DEFAULT_POINTS[1]
  /\ points[Len(points)] = DEFAULT_POINTS[Len(DEFAULT_POINTS)]
  /\ \A k \in 1..Len(DEFAULT_POINTS) :
       points[selectedPoint + 1] # DEFAULT_POINTS[k]

\* the two lists hold the same coordinates in the same order
sameCoordinates(a, b) ==
  /\ Len(a) = Len(b)
  /\ \A i \in 1..Len(a) : a[i].x = b[i].x /\ a[i].y = b[i].y

\* C26: no event alters the stored default points; a confirmed reset sets
\* the profile to exactly the 4 default points (0.5,2), (1.5,1), (1.5,-1),
\* (0.5,-2) with no selection, whatever was edited before; a declined reset
\* leaves the profile and the selection unchanged.
C26_ResetRestoresDefaults ==
  [][/\ sameCoordinates(defaultPoints', DEFAULT_POINTS)
     /\ lastOp'.kind = "resetState" =>
          \A confirmed \in BOOLEAN :
            ResetState(confirmed)
            => IF confirmed
               THEN /\ Len(points') = 4
                    /\ sameCoordinates(points', DEFAULT_POINTS)
                    /\ selectedPoint' = Null
               ELSE UNCHANGED << points, selectedPoint >>]_vars

\* a confirmed reset after a press on a point and one more event: the
\* default profile, no selection, the drag of the press still on
C26_Witness ==
  /\ lastOp.kind = "resetState"
  /\ steps = 3
  /\ isDragging
  /\ selectedPoint = Null
  /\ points = DEFAULT_POINTS
  /\ localStorage = saveState(DEFAULT_POINTS)

\* C25 (as claimed): after the five events of a double click on a spot that
\* hits no point (press that inserts, release, press that hits the inserted
\* point, release, double click) the profile has the points it had before
\* the gesture, in the same order, nothing is selected and no drag is on.
C25_DoubleClickGestureRestores ==
  gesturePhase = Len(GestureEvents) =>
    /\ points = gesture.before
    /\ selectedPoint = Null
    /\ ~isDragging

====
